---------------------------- MODULE Spec2Model ----------------------------
(***************************************************************************)
(* Model of manual_pagerank (Experiment_6/experiment_6.py): the damped     *)
(* power iteration with dangling-node redistribution, and of the script's  *)
(* call of it on the three-page example graph.                             *)
(*                                                                         *)
(* Arithmetic.  The source computes in binary floating point.  The model   *)
(* computes in fixed point: a float x is the integer nearest  *)
(* to x * Scale, and every operation that rounds in the source rounds here *)
(* (to the nearest unit).  The entries of M are the unit fractions 1/k,    *)
(* k <= N, and are held exactly as numerators over MDen = lcm(1..MaxN).    *)
(* d is the fraction dn/dd.  The product d * M @ v, which Python groups as *)
(* (d * M) @ v, is computed as d * (M @ v): the two agree up to rounding   *)
(* and the second keeps every intermediate value inside TLC's integers.    *)
(***************************************************************************)
EXTENDS Integers, Sequences, FiniteSets, TLC

\* ------------------------------------------------------------- bounds
MaxN == 3        \* node identifiers are 1..MaxN; a graph has at most MaxN nodes
MaxEdges == 2    \* a graph drawn by Init has at most MaxEdges edges, or is a ring
MaxIter == 3     \* the iterations argument drawn by Init is in 0..MaxIter
FixPasses == 120 \* passes after which an iteration is taken to be at its fixed point

\* --------------------------------------------------- program constants
DefaultIterations == 100     \* iterations=100
TolPerUnit == 1000000        \* tol=1.0e-6, as 1/TolPerUnit
DampNum == 17                \* d=0.85 = DampNum/DampDen
DampDen == 20

\* ---------------------------------------------------------- fixed point
Scale == (2^8) * (3^3) * (5^6)    \* 108,000,000 units make 1.0

RECURSIVE Gcd(_, _)
Gcd(a, b) == IF b = 0 THEN a ELSE Gcd(b, a % b)

RECURSIVE LcmUpTo(_)
LcmUpTo(n) == IF n <= 1 THEN 1 ELSE (LcmUpTo(n - 1) * n) \div Gcd(LcmUpTo(n - 1), n)

MDen == LcmUpTo(MaxN)     \* the entries of M are numerators over MDen

\* a / b rounded to the nearest integer (b > 0)
RoundDiv(a, b) == (a + (b \div 2)) \div b

Abs(x) == IF x < 0 THEN -x ELSE x

\* f[0] + ... + f[n-1]
RECURSIVE SumTo(_, _)
SumTo(f, n) == IF n = 0 THEN 0 ELSE f[n - 1] + SumTo(f, n - 1)

Range(f) == {f[x] : x \in DOMAIN f}

\* the enumerations (lists without repetition) of a finite set
Perms(S) == {s \in [1..Cardinality(S) -> S] : \A a, b \in 1..Cardinality(S) : s[a] = s[b] => a = b}


\* ------------------------------------------------------------- inputs
\* G of the script: pages A, B, C are 1, 2, 3 (their sorted order)
A == 1
B == 2
C == 3
G == [nodes |-> {A, B, C}, edges |-> {<<A, B>>, <<A, C>>, <<C, A>>}]

\* nx.DiGraph over the identifiers 1..n: a node set and a set of ordered
\* pairs (self-loops allowed, parallel edges collapsed)
SparseGraphs ==
  UNION {{[nodes |-> 1..n, edges |-> E] :
            E \in {F \in SUBSET ((1..n) \X (1..n)) : Cardinality(F) <= MaxEdges}} :
         n \in 0..MaxN}

\* the n-node directed cycle: every node links to the next one
Ring(n) == [nodes |-> 1..n, edges |-> {<<k, (k % n) + 1>> : k \in 1..n}]

Graphs == SparseGraphs \cup {Ring(n) : n \in 1..MaxN}

DefaultD == [n |-> DampNum, den |-> DampDen]
DefaultTol == Scale \div TolPerUnit
CoarseTol == Scale \div 10

\* the arguments a caller may pass: valid ones, and d <= 0, d >= 1,
\* iterations < 1 and tol <= 0
Dampings == {[n |-> 0, den |-> 1], [n |-> 1, den |-> 2], DefaultD, [n |-> 1, den |-> 1]}
Tolerances == {0, DefaultTol, CoarseTol}
IterationCounts == 0..MaxIter

ValidD(x) == 0 < x.n /\ x.n < x.den
ValidArgs(g, x, it, t) == g.nodes # {} /\ ValidD(x) /\ it >= 1 /\ t > 0

\* graph.neighbors(u) as a set
Successors(g, u) == {w \in g.nodes : <<u, w>> \in g.edges}

\* ------------------------------------------------- manual_pagerank, pure
\* sorted(list(graph.nodes())): position i (from 0) holds the identifier
\* with exactly i smaller identifiers in the enumeration
Sorted(order) ==
  [i \in 0..(Len(order) - 1) |->
     CHOOSE x \in Range(order) : Cardinality({y \in Range(order) : y < x}) = i]

\* node_idx = {node: i for i, node in enumerate(nodes)}
NodeIdx(ns) == [x \in Range(ns) |-> CHOOSE i \in DOMAIN ns : ns[i] = x]

\* mutant of Column: the dangling branch is left out (the column stays 0)
Column_NoDangling(ns, idx, neighbors) ==
  [r \in 0..(Cardinality(DOMAIN ns) - 1) |->
     IF \E k \in 1..Len(neighbors) : idx[neighbors[k]] = r
     THEN MDen \div Len(neighbors) ELSE 0]

\* mutant of Column: a non-dangling column is weighted 1/N, not 1/len(neighbors)
Column_DivByN(ns, idx, neighbors) ==
  [r \in 0..(Cardinality(DOMAIN ns) - 1) |->
     IF Len(neighbors) = 0 \/ \E k \in 1..Len(neighbors) : idx[neighbors[k]] = r
     THEN MDen \div Cardinality(DOMAIN ns) ELSE 0]

\* mutant of Column: a neighbour's entry is 1.0, not 1.0 / len(neighbors)
Column_Unweighted(ns, idx, neighbors) ==
  [r \in 0..(Cardinality(DOMAIN ns) - 1) |->
     IF Len(neighbors) = 0 THEN MDen \div Cardinality(DOMAIN ns)
     ELSE IF \E k \in 1..Len(neighbors) : idx[neighbors[k]] = r THEN MDen ELSE 0]

\* column node_idx[u] of M, from the list neighbors of u's out-neighbours:
\* 1/N in every row for a dangling u, else 1/len(neighbors) in the rows of
\* the neighbours and 0 elsewhere (numerators over MDen)
Column(ns, idx, neighbors) ==
  LET N == Cardinality(DOMAIN ns)
  IN  IF Len(neighbors) = 0
      THEN [r \in 0..(N - 1) |-> MDen \div N]
      ELSE [r \in 0..(N - 1) |->
              IF \E k \in 1..Len(neighbors) : idx[neighbors[k]] = r
              THEN MDen \div Len(neighbors) ELSE 0]

\* mutant of BuildMatrix: the entry is written at [node_idx[u], node_idx[v]]
BuildMatrix_Transposed(ns, idx, nbrs) ==
  [rc \in (0..(Cardinality(DOMAIN ns) - 1)) \X (0..(Cardinality(DOMAIN ns) - 1)) |->
     Column(ns, idx, nbrs[ns[rc[1]]])[rc[2]]]

\* M after the loop over nodes; nbrs[u] is the list graph.neighbors(u) gave
BuildMatrix(ns, idx, nbrs) ==
  LET N == Cardinality(DOMAIN ns)
  IN  [rc \in (0..(N - 1)) \X (0..(N - 1)) |-> Column(ns, idx, nbrs[ns[rc[2]]])[rc[1]]]

\* np.ones(N) / N
Uniform(N) == [i \in 0..(N - 1) |-> RoundDiv(Scale, N)]

\* row r of M @ v
MatVecRow(m, vec, N, r) ==
  RoundDiv(SumTo([c \in 0..(N - 1) |-> m[<<r, c>>] * vec[c]], N), MDen)

\* mutant of VNext: the teleport term has the sign of d - 1
VNext_SignSlip(m, vec, x, N) ==
  [r \in 0..(N - 1) |->
     RoundDiv((x.n - x.den) * Scale, x.den * N)
       + RoundDiv(x.n * MatVecRow(m, vec, N, r), x.den)]

\* (1 - d) / N + d * M @ v
VNext(m, vec, x, N) ==
  [r \in 0..(N - 1) |->
     RoundDiv((x.den - x.n) * Scale, x.den * N)
       + RoundDiv(x.n * MatVecRow(m, vec, N, r), x.den)]

\* np.linalg.norm(a - b, 1)
Norm1(a, b, N) == SumTo([k \in 0..(N - 1) |-> Abs(a[k] - b[k])], N)

\* {nodes[i]: v[i] for i in range(N)}
Mapping(ns, vec) == [x \in Range(ns) |-> vec[CHOOSE i \in DOMAIN ns : ns[i] = x]]


\* -------------------------------------------------------------- state
VARIABLES
  graph,       \* the caller's graph: [nodes, edges]
  d,           \* damping, [n, den]
  iterations,  \* iterations argument
  tol,         \* tol argument, in units
  pc,          \* "start", "build", "loop", "ret", "done"
  nodes,       \* sorted list of identifiers, indexed from 0
  node_idx,    \* identifier -> index
  M,           \* <<row, column>> -> numerator over MDen
  v,           \* current iterate
  v_next,      \* iterate computed by the latest pass of the loop
  i,           \* loop variable of the power loop
  output,      \* what print has written, in order
  outcome,     \* "none", "returned" or the exception raised
  result,      \* the returned mapping
  run,         \* 1 for the first call, 2 for a repeated call
  prev         \* what the first call returned, once it is repeated

\* git_auto_commit.py: main and what it calls
VARIABLES
  argv,        \* the flags on the command line, a subset of {"--push", "--commit"}
  gpc,         \* "start", "changes", "process", "done"
  dry_run,     \* main's dry_run
  push,        \* main's push
  status_rc,   \* return code of git status (-1 before it has run)
  changes,     \* get_all_changes(): category -> set of paths
  todo,        \* the (category, path) pairs process_all_files has still to visit
  issued,      \* the git commands run so far, [cmd, path] (path 0: none)
  success,     \* process_all_files' success
  failed,      \* process_all_files' failed
  exit_code    \* what main returned (-1 before it has returned)

gitVars == <<argv, gpc, dry_run, push, status_rc, changes, todo, issued,
             success, failed, exit_code>>

\* experiment_9.py: independent_cascade
VARIABLES
  icG,           \* G, [nodes, edges]
  seeds,         \* seeds, as a set
  probability,   \* probability, in halves
  icpc,          \* "start", "loop", "done"
  active,        \* active
  newly_active,  \* newly_active
  history,       \* history
  waves,         \* the sets current_new_active of the rounds so far, in order
  returned       \* the returned pair, << >> before the return

icVars == <<icG, seeds, probability, icpc, active, newly_active, history, waves, returned>>

others == <<gitVars, icVars>>

prVars == <<graph, d, iterations, tol, pc, nodes, node_idx, M, v, v_next, i,
            output, outcome, result, run, prev>>

vars == <<graph, d, iterations, tol, pc, nodes, node_idx, M, v, v_next, i,
          output, outcome, result, run, prev, others>>

\* the script of git_auto_commit.py has not been started
GitIdle ==
  /\ argv = {}
  /\ gpc = "idle"
  /\ dry_run = TRUE
  /\ push = FALSE
  /\ status_rc = -1
  /\ changes = << >>
  /\ todo = << >>
  /\ issued = {}
  /\ success = 0
  /\ failed = 0
  /\ exit_code = -1

\* independent_cascade has not been called
IcIdle ==
  /\ icG = [nodes |-> {}, edges |-> {}]
  /\ seeds = {}
  /\ probability = 0
  /\ icpc = "idle"
  /\ active = {}
  /\ newly_active = {}
  /\ history = << >>
  /\ waves = << >>
  /\ returned = << >>

args == <<graph, d, iterations, tol>>

N == Cardinality(DOMAIN nodes)

Locals0 ==
  /\ pc = "start"
  /\ nodes = << >>
  /\ node_idx = << >>
  /\ M = << >>
  /\ v = << >>
  /\ v_next = << >>
  /\ i = 0
  /\ output = << >>
  /\ outcome = "none"
  /\ result = << >>

\* pr_custom = manual_pagerank(G, d=0.85)
ScriptCall ==
  /\ graph = G
  /\ d = DefaultD
  /\ iterations = DefaultIterations
  /\ tol = DefaultTol

\* any call within the bounds
AnyCall ==
  /\ graph \in Graphs
  /\ d \in Dampings
  /\ iterations \in IterationCounts
  /\ tol \in Tolerances

Init ==
  /\ ScriptCall \/ AnyCall
  /\ Locals0
  /\ run = 1
  /\ prev = << >>
  /\ GitIdle
  /\ IcIdle

\* the lists graph.neighbors(u) may return: one enumeration of u's
\* out-neighbours for every node u
RECURSIVE ListsFor(_, _)
ListsFor(g, S) ==
  IF S = {} THEN {<< >>}
  ELSE LET u == CHOOSE x \in S : TRUE
       IN  {[x \in S |-> IF x = u THEN p ELSE f[x]] :
              p \in Perms(Successors(g, u)), f \in ListsFor(g, S \ {u})}

NeighborLists(g) == ListsFor(g, g.nodes)

\* mutant of Call: node_idx is numbered along graph.nodes(), not along the
\* sorted list
Call_IdxFromEnumeration ==
  /\ pc = "start"
  /\ \E order \in Perms(graph.nodes) :
       /\ nodes' = Sorted(order)
       /\ node_idx' = [x \in Range(order) |-> (CHOOSE k \in 1..Len(order) : order[k] = x) - 1]
       /\ M' = [rc \in (0..(Len(order) - 1)) \X (0..(Len(order) - 1)) |-> 0]
  /\ pc' = "build"
  /\ UNCHANGED <<args, v, v_next, i, output, outcome, result, run, prev, others>>

\* lines 38-55: nodes, N, the zero matrix, node_idx.  graph.nodes() may
\* enumerate the nodes in any order
Call ==
  /\ pc = "start"
  /\ \E order \in Perms(graph.nodes) :
       /\ nodes' = Sorted(order)
       /\ node_idx' = NodeIdx(Sorted(order))
       /\ M' = [rc \in (0..(Len(order) - 1)) \X (0..(Len(order) - 1)) |-> 0]
  /\ pc' = "build"
  /\ UNCHANGED <<args, v, v_next, i, output, outcome, result, run, prev, others>>

\* lines 57-70: the columns of M, then v = np.ones(N) / N
BuildM ==
  /\ pc = "build"
  /\ \E nbrs \in NeighborLists(graph) : M' = BuildMatrix(nodes, node_idx, nbrs)
  /\ v' = Uniform(N)
  /\ i' = 0
  /\ pc' = "loop"
  /\ UNCHANGED <<args, nodes, node_idx, v_next, output, outcome, result, run, prev, others>>

\* line 75 on an empty graph: (1 - d) / N divides by zero
IterRaise ==
  /\ pc = "loop"
  /\ i < iterations
  /\ N = 0
  /\ outcome' = "ZeroDivisionError"
  /\ pc' = "done"
  /\ UNCHANGED <<args, nodes, node_idx, M, v, v_next, i, output, result, run, prev, others>>

\* mutant of IterConverge: the break is left out
IterConverge_NoBreak ==
  /\ pc = "loop"
  /\ i < iterations
  /\ N > 0
  /\ v_next' = VNext(M, v, d, N)
  /\ Norm1(v_next', v, N) < tol
  /\ output' = Append(output, [text |-> "Converged at iteration", at |-> i])
  /\ v' = v_next'
  /\ i' = i + 1
  /\ UNCHANGED <<args, pc, nodes, node_idx, M, outcome, result, run, prev, others>>

\* lines 75-78: the distance is below tol: print and break
IterConverge ==
  /\ pc = "loop"
  /\ i < iterations
  /\ N > 0
  /\ v_next' = VNext(M, v, d, N)
  /\ Norm1(v_next', v, N) < tol
  /\ output' = Append(output, [text |-> "Converged at iteration", at |-> i])
  /\ pc' = "ret"
  /\ UNCHANGED <<args, nodes, node_idx, M, v, i, outcome, result, run, prev, others>>

\* mutant of IterAdvance: v = v_next is left out
IterAdvance_NoAssign ==
  /\ pc = "loop"
  /\ i < iterations
  /\ N > 0
  /\ v_next' = VNext(M, v, d, N)
  /\ ~(Norm1(v_next', v, N) < tol)
  /\ i' = i + 1
  /\ UNCHANGED <<args, pc, nodes, node_idx, M, v, output, outcome, result, run, prev, others>>

\* lines 75-76, 79: the distance is not below tol: v = v_next, next i
IterAdvance ==
  /\ pc = "loop"
  /\ i < iterations
  /\ N > 0
  /\ v_next' = VNext(M, v, d, N)
  /\ ~(Norm1(v_next', v, N) < tol)
  /\ v' = v_next'
  /\ i' = i + 1
  /\ UNCHANGED <<args, pc, nodes, node_idx, M, output, outcome, result, run, prev, others>>

\* line 74: range(iterations) is used up
IterExhausted ==
  /\ pc = "loop"
  /\ i >= iterations
  /\ pc' = "ret"
  /\ UNCHANGED <<args, nodes, node_idx, M, v, v_next, i, output, outcome, result, run, prev, others>>

\* line 81
Return ==
  /\ pc = "ret"
  /\ result' = Mapping(nodes, v)
  /\ outcome' = "returned"
  /\ pc' = "done"
  /\ UNCHANGED <<args, nodes, node_idx, M, v, v_next, i, output, run, prev, others>>

Next == Call \/ BuildM \/ IterRaise \/ IterConverge \/ IterAdvance \/ IterExhausted \/ Return

Spec == Init /\ [][Next]_vars

\* the caller repeats the call with the same arguments, keeping what the
\* first call gave
Recall ==
  /\ pc = "done"
  /\ run = 1
  /\ run' = 2
  /\ prev' = [outcome |-> outcome, result |-> result]
  /\ pc' = "start"
  /\ nodes' = << >>
  /\ node_idx' = << >>
  /\ M' = << >>
  /\ v' = << >>
  /\ v_next' = << >>
  /\ i' = 0
  /\ output' = << >>
  /\ outcome' = "none"
  /\ result' = << >>
  /\ UNCHANGED <<args, others>>

NextTwice == Next \/ Recall

SpecTwice == Init /\ [][NextTwice]_vars


\* ============================================================== claims
Valid == ValidArgs(graph, d, iterations, tol)
Returned == pc = "done" /\ outcome = "returned"
Dangling(g) == {u \in g.nodes : Successors(g, u) = {}}

\* C1 (as claimed): a call with an invalid argument (empty graph, d <= 0,
\* d >= 1, iterations < 1 or tol <= 0) never returns a rank mapping and ends
\* with the InvalidParameter error.
C1_InvalidRejected ==
  ~Valid => /\ outcome # "returned"
            /\ (pc = "done" => outcome = "InvalidParameter")

\* C2: for valid arguments the components of v sum to 1 within 1e-6 from
\* the initial state of the power loop on, and so do the returned ranks.
SumTol == Scale \div 1000000
SumsToOne(vec) == Abs(SumTo(vec, N) - Scale) <= SumTol
C2_SumToOne ==
  Valid => /\ (pc \in {"loop", "ret", "done"} => SumsToOne(v))
           /\ (v_next # << >> => SumsToOne(v_next))
           /\ (Returned => SumsToOne([k \in 0..(N - 1) |-> result[nodes[k]]]))

\* a returned run of at least two passes over a graph with a self-loop, a
\* dangling node and a non-dangling node
C2_Witness ==
  /\ Valid /\ Returned /\ i >= 2
  /\ Dangling(graph) # {} /\ Dangling(graph) # graph.nodes
  /\ \E u \in graph.nodes : <<u, u>> \in graph.edges

\* C3: for valid arguments every component of v, in every state of the
\* power loop, and every returned rank is >= 0.
C3_NonNegative ==
  Valid => /\ \A k \in DOMAIN v : v[k] >= 0
           /\ \A k \in DOMAIN v_next : v_next[k] >= 0
           /\ \A x \in DOMAIN result : result[x] >= 0

\* a returned run in which some node has no in-link from a non-dangling
\* node and no dangling node exists (it receives only teleport mass)
C3_Witness ==
  /\ Valid /\ Returned /\ i >= 1 /\ Dangling(graph) = {}
  /\ \E x \in graph.nodes : \A u \in graph.nodes : <<u, x>> \notin graph.edges


Ref == [x \in {A, B, C} |-> IF x = A THEN <<74, 188>> ELSE <<57, 188>>]
RefNum == [x \in {A, B, C} |-> Ref[x][1]]
RefDen == Ref[A][2]

\* RefNum/RefDen solves the equation exactly, row by row, for the M in the
\* state (all terms multiplied by d.den * N * MDen * RefDen)
RefIsStationary ==
  \A r \in 0..(N - 1) :
    RefNum[nodes[r]] * d.den * N * MDen
      = (d.den - d.n) * MDen * RefDen
          + d.n * N * SumTo([c \in 0..(N - 1) |-> M[<<r, c>>] * RefNum[nodes[c]]], N)

\* floor(RefNum[x] / RefDen * Scale), computed without leaving 32 bits
RefUnits(x) == (Scale \div RefDen) * RefNum[x] + ((Scale % RefDen) * RefNum[x]) \div RefDen

C5_MatchesReference ==
  (ScriptCall /\ Returned) =>
     /\ RefIsStationary
     /\ SumTo([k \in 0..(N - 1) |-> RefNum[nodes[k]]], N) = RefDen
     /\ \A x \in {A, B, C} : Abs(result[x] - RefUnits(x)) + 1 < Scale \div 1000

\* the script's call has returned after converging within its 100 passes
C5_Witness == ScriptCall /\ Returned /\ output # << >> /\ i < DefaultIterations

\* C6: when no pass of the loop finds the distance below tol, the call
\* raises nothing and returns the vector computed by the last pass, which
\* is the iterations-th iterate from the uniform vector.
RECURSIVE Iterate(_, _, _, _, _)
Iterate(m, vec, x, n, k) == IF k = 0 THEN vec ELSE VNext(m, Iterate(m, vec, x, n, k - 1), x, n)

C6_LastIterateReturned ==
  (pc = "done" /\ N > 0 /\ iterations >= 1 /\ output = << >>) =>
     /\ outcome = "returned"
     /\ i = iterations
     /\ \A k \in 0..(N - 1) : result[nodes[k]] = v_next[k]
     /\ \A k \in 0..(N - 1) : result[nodes[k]] = Iterate(M, Uniform(N), d, N, iterations)[k]

\* a run of at least two passes that never converged and whose last iterate
\* differs from the one before
C6_Witness ==
  /\ Returned /\ output = << >> /\ iterations >= 2 /\ i = iterations
  /\ Iterate(M, Uniform(N), d, N, iterations) # Iterate(M, Uniform(N), d, N, iterations - 1)


\* C7: a repeated call with the same graph, d, iterations and tol ends as
\* the first call did and returns the identical mapping, whatever order
\* graph.nodes() and graph.neighbors() enumerate in during either call.
C7_Deterministic ==
  (run = 2 /\ pc = "done") => (outcome = prev.outcome /\ result = prev.result)

\* the repeated call has returned ranks that are not all equal, for a graph
\* of more than one node (more than one enumeration order)
C7_Witness ==
  /\ run = 2 /\ Returned /\ Cardinality(graph.nodes) >= 2
  /\ \E x, y \in graph.nodes : result[x] # result[y]

\* C8 (as claimed): a call emits no output on any path.
C8_NoOutput == output = << >>

\* C9: for a graph of one node and no edge and valid arguments, the call
\* returns rank 1.0 for the node.
OneNode == Cardinality(graph.nodes) = 1 /\ graph.edges = {}
C9_SingleNode ==
  (Valid /\ Returned /\ OneNode) => \A x \in graph.nodes : result[x] = Scale

C9_Witness == Valid /\ Returned /\ OneNode /\ v_next # << >>

\* C10: on the N-node directed cycle, N >= 1, with d in (0,1) and valid
\* iterations and tol, the call returns exactly 1/N for every node.
IsRing == graph.nodes # {} /\ graph = Ring(Cardinality(graph.nodes))
C10_RingUniform ==
  (Valid /\ Returned /\ IsRing) => \A x \in graph.nodes : result[x] * N = Scale

\* a returned run on the cycle of more than two nodes
C10_Witness == Valid /\ Returned /\ IsRing /\ N >= 3 /\ v_next # << >>


\* C11: for a graph of N >= 1 nodes and no edge, with valid arguments, the
\* first pass computes v_next = 1/N for every node at distance 0 from v, the
\* loop breaks in that pass (i stays 0, one line is printed for iteration 0)
\* and every node is returned rank 1/N.
NoEdges == graph.nodes # {} /\ graph.edges = {}
C11_AllDanglingOnePass ==
  (Valid /\ NoEdges) =>
     /\ i = 0
     /\ (pc \in {"ret", "done"} =>
           /\ output = <<[text |-> "Converged at iteration", at |-> 0]>>
           /\ \A k \in 0..(N - 1) : v_next[k] * N = Scale
           /\ Norm1(v_next, v, N) = 0)
     /\ (pc = "done" => /\ outcome = "returned"
                        /\ \A x \in graph.nodes : result[x] * N = Scale)

\* a returned run on the edgeless graph of more than one node
C11_Witness == Valid /\ NoEdges /\ Returned /\ N >= 2 /\ iterations >= 2


\* calls that differ in the graph and in d only (one pass, default tol): the
\* inputs of the matrix and of the fixed point
InitGraphAndD ==
  /\ graph \in Graphs
  /\ d \in Dampings
  /\ iterations = 1
  /\ tol = DefaultTol
  /\ Locals0
  /\ run = 1
  /\ prev = << >>
  /\ GitIdle
  /\ IcIdle

SpecGraphAndD == InitGraphAndD /\ [][Next]_vars

\* C12: for a graph with exactly one dangling node and d in (0,1), the fixed
\* point of v -> (1-d)/N + d*M*v differs from the fixed point of the same
\* iteration with the dangling column of M set to 0 in every row.
ZeroDangling(m) ==
  [rc \in DOMAIN m |-> IF nodes[rc[2]] \in Dangling(graph) THEN 0 ELSE m[rc]]

\* k passes from vec, as Iterate, computed as k \div 2 passes followed by
\* the rest, so that the evaluation nests log k deep (the comparison makes
\* TLC compute the first half once, before the second half reads it)
RECURSIVE Passes(_, _, _, _, _)
Passes(m, vec, x, n, k) ==
  IF k = 0 THEN vec
  ELSE IF k = 1 THEN VNext(m, vec, x, n)
  ELSE LET half == Passes(m, vec, x, n, k \div 2)
       IN  IF half = << >> THEN half ELSE Passes(m, half, x, n, k - (k \div 2))

\* the iterate after FixPasses passes from the uniform vector
FixedPoint(m) == Passes(m, Uniform(N), d, N, FixPasses)

\* vec is fixed by the iteration with matrix m, up to the two roundings a
\* pass makes in each component
IsFixed(m, vec) == Norm1(VNext(m, vec, d, N), vec, N) <= 2 * N

OneDangling == Cardinality(Dangling(graph)) = 1

C12_DanglingRuleMatters ==
  (pc = "loop" /\ i = 0 /\ ValidD(d) /\ OneDangling) =>
     LET with == FixedPoint(M)
         without == FixedPoint(ZeroDangling(M))
     IN  /\ IsFixed(M, with)
         /\ IsFixed(ZeroDangling(M), without)
         /\ Norm1(with, without, N) > 4 * N
         /\ ~IsFixed(ZeroDangling(M), with)
         /\ ~IsFixed(M, without)

\* M has been built for a graph of three nodes, one of them dangling, that
\* has a link into the dangling node and a link out of a node it does not
\* link to
C12_Witness ==
  /\ pc = "loop" /\ i = 0 /\ ValidD(d) /\ OneDangling /\ N >= 3
  /\ \E u \in graph.nodes, w \in Dangling(graph) : <<u, w>> \in graph.edges


\* C13: for valid arguments (d = 0.85 among them) the L1 distance computed
\* by a pass of the power loop is never larger than the distance computed
\* by the pass before it: dist_i <= dist_(i-1) for every pass i >= 1 that the
\* loop executes, with no transient to wait for.
PreviousIterate == Passes(M, Uniform(N), d, N, i - 1)
C13_DistanceNonIncreasing ==
  (Valid /\ pc = "loop" /\ i >= 1 /\ i < iterations) =>
     /\ v = VNext(M, PreviousIterate, d, N)
     /\ Norm1(VNext(M, v, d, N), v, N) <= Norm1(v, PreviousIterate, N)

\* the loop is about to run its third pass or a later one with d = 0.85, on
\* iterates that still move
C13_Witness ==
  /\ Valid /\ d = DefaultD /\ pc = "loop" /\ i >= 2 /\ i < iterations
  /\ Norm1(VNext(M, v, d, N), v, N) > 0


\* C15 (as claimed): when a pass finds the distance below tol, the call
\* returns the v_next of that pass, not the iterate v it was computed from.
C15_ConvergedReturnsVNext ==
  (Returned /\ output # << >>) => \A k \in 0..(N - 1) : result[nodes[k]] = v_next[k]


\* C16: the matrix M built for a graph of N >= 1 nodes is column-stochastic:
\* the column of a node j with out-degree d_j > 0 holds 1/d_j in the rows of
\* j's out-neighbours and 0 elsewhere, the column of a dangling node holds
\* 1/N in every row, so every entry is >= 0 and every column sums to 1.
OutDegree(u) == Cardinality(Successors(graph, u))
C16_ColumnStochastic ==
  (pc \in {"loop", "ret", "done"} /\ N >= 1) =>
     \A c \in 0..(N - 1) :
        /\ \A r \in 0..(N - 1) :
              /\ M[<<r, c>>] >= 0
              /\ (OutDegree(nodes[c]) = 0 => M[<<r, c>>] * N = MDen)
              /\ (OutDegree(nodes[c]) > 0 /\ <<nodes[c], nodes[r]>> \in graph.edges
                    => M[<<r, c>>] * OutDegree(nodes[c]) = MDen)
              /\ (OutDegree(nodes[c]) > 0 /\ <<nodes[c], nodes[r]>> \notin graph.edges
                    => M[<<r, c>>] = 0)
        /\ SumTo([r \in 0..(N - 1) |-> M[<<r, c>>]], N) = MDen

\* M has been built for a graph with a self-loop, a node of out-degree two
\* and a dangling node
C16_Witness ==
  /\ pc = "loop" /\ N >= 3
  /\ \E u \in graph.nodes : <<u, u>> \in graph.edges
  /\ \E u \in graph.nodes : OutDegree(u) = 2
  /\ Dangling(graph) # {}


\* the passes of the power loop executed so far (v_next computed that often)
PassesRun == IF output # << >> THEN i + 1 ELSE i

\* the distance pass j computes
DistAt(j) ==
  LET vj == Passes(M, Uniform(N), d, N, j)
  IN  Norm1(VNext(M, vj, d, N), vj, N)

\* the loop runs at most iterations passes, and a pass k that finds the
\* distance below tol is the first such pass and the last pass executed
LoopBounded ==
  /\ (pc \in {"loop", "ret", "done"} => PassesRun <= iterations)
  /\ (output # << >> =>
        /\ pc \in {"ret", "done"}
        /\ Len(output) = 1
        /\ output[1].at = i
        /\ v = Passes(M, Uniform(N), d, N, i)
        /\ v_next = VNext(M, v, d, N)
        /\ Norm1(v_next, v, N) < tol
        /\ \A j \in 0..(i - 1) : ~(DistAt(j) < tol))

MaxFiles == 1                       \* paths are 1..MaxFiles, in sorted order
Files == 1..MaxFiles

\* the categories of process_all_files, in its order
categories == <<"staged", "modified", "untracked", "deleted">>

Flags == {"--push", "--commit"}

\* the commands that change the repository or the remote
StateChanging == {"add", "rm", "commit", "push"}

\* run_git(args): the command is recorded as having run
run_git(cmd, path) == [cmd |-> cmd, path |-> path]

\* sorted(files), as a sequence
RECURSIVE SortedFiles(_)
SortedFiles(files) ==
  IF files = {} THEN << >>
  ELSE LET least == CHOOSE f \in files : \A g \in files : f <= g
       IN  <<least>> \o SortedFiles(files \ {least})

\* commit_file(filepath, action, push): the possible outcomes, each the
\* value returned and the commands that ran; the return codes of git are
\* the environment's choice
commit_file(filepath, action, pushing) ==
  LET stage   == run_git(IF action = "deleted" THEN "rm" ELSE "add", filepath)
      commit  == run_git("commit", filepath)
      pushed  == run_git("push", 0)
  IN  {[ok |-> FALSE, ran |-> {stage}],                \* failed to stage
       [ok |-> TRUE,  ran |-> {stage, commit}],        \* nothing to commit
       [ok |-> FALSE, ran |-> {stage, commit}]}        \* failed to commit
      \cup
      (IF pushing
       THEN {[ok |-> FALSE, ran |-> {stage, commit, pushed}],   \* push failed
             [ok |-> TRUE,  ran |-> {stage, commit, pushed}]}
       ELSE {[ok |-> TRUE,  ran |-> {stage, commit}]})

\* the pairs the two loops of process_all_files visit, in order, from
\* category number c on
RECURSIVE Visits(_, _)
Visits(ch, c) ==
  IF c > Len(categories) THEN << >>
  ELSE LET files == SortedFiles(ch[categories[c]])
       IN  [k \in 1..Len(files) |-> <<categories[c], files[k]>>] \o Visits(ch, c + 1)

\* sum(len(v) for v in changes.values())
total == Cardinality(changes["staged"]) + Cardinality(changes["modified"])
         + Cardinality(changes["untracked"]) + Cardinality(changes["deleted"])

\* what get_all_changes can return: four lists of paths, the deleted paths
\* removed from the modified ones
get_all_changes ==
  {[c \in Range(categories) |->
      IF c = "staged" THEN st
      ELSE IF c = "modified" THEN mo \ de
      ELSE IF c = "untracked" THEN un ELSE de] :
   st \in SUBSET Files, mo \in SUBSET Files, un \in SUBSET Files, de \in SUBSET Files}

\* the commands get_all_changes and scan_directory_tree run: they only read
Reads == {run_git("ls-files", 0), run_git("diff", 0)}

PageRankIdle == ScriptCall /\ Locals0 /\ run = 1 /\ prev = << >>

InitGit ==
  /\ argv \in SUBSET Flags
  /\ gpc = "start"
  /\ dry_run = TRUE
  /\ push = FALSE
  /\ status_rc = -1
  /\ changes = << >>
  /\ todo = << >>
  /\ issued = {}
  /\ success = 0
  /\ failed = 0
  /\ exit_code = -1
  /\ PageRankIdle
  /\ IcIdle

\* main, to the call of get_all_changes: the flags are read, git status
\* tells whether this is a repository, the tree is scanned
main_start ==
  /\ gpc = "start"
  /\ dry_run' = (argv \cap Flags = {})
  /\ push' = ("--push" \in argv)
  /\ \E rc \in {0, 128} :
       /\ status_rc' = rc
       /\ IF rc # 0
          THEN /\ issued' = issued \cup {run_git("status", 0)}
               /\ exit_code' = 1
               /\ gpc' = "done"
          ELSE /\ issued' = issued \cup {run_git("status", 0), run_git("ls-files", 0)}
               /\ exit_code' = exit_code
               /\ gpc' = "changes"
  /\ UNCHANGED <<argv, changes, todo, success, failed, prVars, icVars>>

\* main, from get_all_changes to the call of process_all_files
main_changes ==
  /\ gpc = "changes"
  /\ \E ch \in get_all_changes :
       /\ changes' = ch
       /\ issued' = issued \cup Reads
       /\ IF total' = 0
          THEN /\ exit_code' = 0
               /\ gpc' = "done"
               /\ todo' = todo
          ELSE /\ exit_code' = exit_code
               /\ gpc' = "process"
               /\ todo' = Visits(ch, 1)
  /\ success' = 0
  /\ failed' = 0
  /\ UNCHANGED <<argv, dry_run, push, status_rc, prVars, icVars>>

\* mutant of process_file: dry_run is not looked at
process_file_NoDryRun ==
  /\ gpc = "process"
  /\ todo # << >>
  /\ LET category == Head(todo)[1]
         filepath == Head(todo)[2]
     IN  \E r \in commit_file(filepath, category, push) :
              /\ issued' = issued \cup r.ran
              /\ success' = success + (IF r.ok THEN 1 ELSE 0)
              /\ failed' = failed + (IF r.ok THEN 0 ELSE 1)
  /\ todo' = Tail(todo)
  /\ UNCHANGED <<argv, gpc, dry_run, push, status_rc, changes, exit_code, prVars, icVars>>

\* process_all_files, one pass of the inner loop
process_file ==
  /\ gpc = "process"
  /\ todo # << >>
  /\ LET category == Head(todo)[1]
         filepath == Head(todo)[2]
     IN  IF dry_run
         THEN UNCHANGED <<issued, success, failed>>
         ELSE \E r \in commit_file(filepath, category, push) :
                /\ issued' = issued \cup r.ran
                /\ success' = success + (IF r.ok THEN 1 ELSE 0)
                /\ failed' = failed + (IF r.ok THEN 0 ELSE 1)
  /\ todo' = Tail(todo)
  /\ UNCHANGED <<argv, gpc, dry_run, push, status_rc, changes, exit_code, prVars, icVars>>

\* main, after process_all_files
main_return ==
  /\ gpc = "process"
  /\ todo = << >>
  /\ exit_code' = (IF failed = 0 THEN 0 ELSE 1)
  /\ gpc' = "done"
  /\ UNCHANGED <<argv, dry_run, push, status_rc, changes, todo, issued, success, failed,
                 prVars, icVars>>

NextGit == main_start \/ main_changes \/ process_file \/ main_return

SpecGit == InitGit /\ [][NextGit]_vars

\* C14: in dry-run mode (neither --push nor --commit on the command line)
\* no state-changing git command (add, rm, commit, push) is ever issued,
\* whatever changes were detected: no file is counted as committed or
\* failed, and main returns 0 whenever git status succeeded (it returns 1
\* exactly when git status failed, before any change is looked for)
C14_DryRunIsSafe ==
  (gpc # "start" /\ argv \cap Flags = {}) =>
     /\ dry_run
     /\ \A c \in issued : c.cmd \notin StateChanging
     /\ success = 0 /\ failed = 0
     /\ (gpc = "done" => (exit_code = 0 <=> status_rc = 0))
     /\ (gpc = "done" /\ changes # << >> => exit_code = 0)

\* a dry run over changes of every category has returned
C14_Witness ==
  /\ argv \cap Flags = {}
  /\ gpc = "done"
  /\ changes # << >>
  /\ \A c \in Range(categories) \ {"modified"} : changes[c] # {}
  /\ exit_code = 0


\* ================================================ independent_cascade
\* probabilities and the values of random.random() are counted in halves:
\* Certain is the probability 1.0, the draws are 0.0 and 0.5
Certain == 2
Probabilities == (0 - 1)..(Certain + 1)
Draws == 0..(Certain - 1)

\* the seeds a caller may pass: any identifiers, in the graph or not
SeedSets == SUBSET (1..MaxN)

\* mutant of Coin: the comparison lets equality through
Coin_Inclusive(r) == r <= probability

\* random.random() < probability, for the draw r
Coin(r) == r < probability

\* the (u, v) pairs of the two for loops of one round, in the order they are
\* visited: order enumerates newly_active, lists[u] is list(G.neighbors(u))
RECURSIVE Pairs(_, _, _)
Pairs(order, lists, k) ==
  IF k > Len(order) THEN << >>
  ELSE [j \in 1..Len(lists[order[k]]) |-> <<order[k], lists[order[k]][j]>>]
       \o Pairs(order, lists, k + 1)

\* mutant of current_new_active: a node that is active already may be
\* activated again
RECURSIVE current_new_active_NoActiveCheck(_, _, _)
current_new_active_NoActiveCheck(pairs, k, cur) ==
  IF k > Len(pairs) THEN {cur}
  ELSE LET w == pairs[k][2]
       IN  IF w \notin cur
           THEN UNION {IF Coin(r)
                       THEN current_new_active_NoActiveCheck(pairs, k + 1, cur \cup {w})
                       ELSE current_new_active_NoActiveCheck(pairs, k + 1, cur) : r \in Draws}
           ELSE current_new_active_NoActiveCheck(pairs, k + 1, cur)

\* the values current_new_active can have after the two for loops, from
\* pair k on with the set cur built so far: one draw for each pair whose
\* target is neither active nor in the set yet
RECURSIVE current_new_active(_, _, _)
current_new_active(pairs, k, cur) ==
  IF k > Len(pairs) THEN {cur}
  ELSE LET w == pairs[k][2]
       IN  IF w \notin active /\ w \notin cur
           THEN UNION {IF Coin(r)
                       THEN current_new_active(pairs, k + 1, cur \cup {w})
                       ELSE current_new_active(pairs, k + 1, cur) : r \in Draws}
           ELSE current_new_active(pairs, k + 1, cur)

InitIC ==
  /\ icG \in Graphs
  /\ seeds \in SeedSets
  /\ probability \in Probabilities
  /\ icpc = "start"
  /\ active = {}
  /\ newly_active = {}
  /\ history = << >>
  /\ waves = << >>
  /\ returned = << >>
  /\ PageRankIdle
  /\ GitIdle

\* lines 25-27
ic_call ==
  /\ icpc = "start"
  /\ active' = seeds
  /\ newly_active' = seeds
  /\ history' = <<Cardinality(seeds)>>
  /\ icpc' = "loop"
  /\ UNCHANGED <<icG, seeds, probability, waves, returned, prVars, gitVars>>

\* one pass of the while loop
ic_round ==
  /\ icpc = "loop"
  /\ newly_active # {}
  /\ newly_active \subseteq icG.nodes
  /\ \E order \in Perms(newly_active), lists \in NeighborLists(icG) :
       \E cur \in current_new_active(Pairs(order, lists, 1), 1, {}) :
          /\ active' = active \cup cur
          /\ newly_active' = cur
          /\ history' = Append(history, Cardinality(active'))
          /\ waves' = Append(waves, cur)
  /\ UNCHANGED <<icG, seeds, probability, icpc, returned, prVars, gitVars>>

\* G.neighbors(u) for a u that is not a node of G raises NetworkXError
ic_raise ==
  /\ icpc = "loop"
  /\ \E u \in newly_active : u \notin icG.nodes
  /\ icpc' = "raised"
  /\ UNCHANGED <<icG, seeds, probability, active, newly_active, history, waves, returned,
                 prVars, gitVars>>

\* the while loop is left, line 43
ic_return ==
  /\ icpc = "loop"
  /\ newly_active = {}
  /\ returned' = <<active, history>>
  /\ icpc' = "done"
  /\ UNCHANGED <<icG, seeds, probability, active, newly_active, history, waves,
                 prVars, gitVars>>

NextIC == ic_call \/ ic_round \/ ic_raise \/ ic_return

SpecIC == InitIC /\ [][NextIC]_vars


\* the rounds of the while loop run so far
Rounds == Len(waves)

\* C18: independent_cascade terminates: the sets of newly activated nodes
\* of successive rounds are pairwise disjoint and disjoint from the seeds,
\* the active set is the seeds and these sets together (no node is ever
\* deactivated), the while loop runs at most (non-seed nodes + 1) rounds and
\* is never stuck before it ends, and the history is non-decreasing
C18_TerminatesDisjointWaves ==
  icpc # "start" =>
     /\ Len(history) = Rounds + 1
     /\ \A a \in 1..Rounds : waves[a] \cap seeds = {}
     /\ \A a, b \in 1..Rounds : a < b => waves[a] \cap waves[b] = {}
     /\ active = seeds \cup UNION Range(waves)
     /\ \A a \in 1..Rounds : history[a + 1] = history[a] + Cardinality(waves[a])
     /\ \A a \in 1..Rounds : history[a] <= history[a + 1]
     /\ Rounds <= Cardinality(icG.nodes \ seeds) + 1
     /\ (icpc = "loop" => ENABLED NextIC)
     /\ (icpc = "done" => returned = <<active, history>> /\ newly_active = {})

\* a cascade that ran the most rounds its graph allows, at least three, and
\* returned
C18_Witness ==
  /\ icpc = "done"
  /\ Rounds >= 3
  /\ Rounds = Cardinality(icG.nodes \ seeds) + 1
  /\ history[Len(history)] > history[1]

\* the nodes that can be reached from S along edges of g, every node that
\* is left on the way being in through
RECURSIVE Reach(_, _, _)
Reach(g, S, through) ==
  LET more == S \cup UNION {Successors(g, u) : u \in S \cap through}
  IN  IF more = S THEN S ELSE Reach(g, more, through)

\* C19: the active set contains all seeds, and every active non-seed node
\* is reachable from a seed along edges through active nodes; with
\* probability >= 1 the returned active set is the set of nodes reachable
\* from the seeds, with probability <= 0 it is the seed set
C19_ActiveIsReachable ==
  icpc # "start" =>
     /\ seeds \subseteq active
     /\ active \subseteq Reach(icG, seeds, active)
     /\ (icpc = "done" =>
           /\ returned[1] = active
           /\ (probability >= Certain => returned[1] = Reach(icG, seeds, icG.nodes \cup seeds))
           /\ (probability <= 0 => returned[1] = seeds))

\* a certain cascade has returned, having reached a node that no seed links to
C19_Witness ==
  /\ icpc = "done"
  /\ probability >= Certain
  /\ \E x \in returned[1] \ seeds : \A s \in seeds : <<s, x>> \notin icG.edges

=============================================================================
